---- MODULE Spec2Model ----
(***************************************************************************)
(* The "create / import virtual machine" dialog of the machines page:     *)
(* pkg/machines/components/create-vm-dialog/createVmDialog.jsx.            *)
(*                                                                         *)
(* CreateVmModal keeps the draft of the new VM in this.state, changes it   *)
(* only through onValueChanged(key, value), validates it with              *)
(* validateParams and hands a snapshot to createVm in onCreateClicked.     *)
(* CreateVmAction owns showModal and the open/close hooks.                 *)
(* At mount it probes virt-install and its features; the initial state of  *)
(* the model is the one right after componentDidMount.                     *)
(*                                                                         *)
(* Conventions of the model                                                *)
(*  - a JavaScript string is a sequence of one-character strings;          *)
(*  - a JavaScript number is an exact dyadic value [m, e] = m * 1024^e,    *)
(*    normalised (1024 does not divide m; zero is [0, 0]); every number    *)
(*    the dialog computes is an integer times a power of 1024, which a     *)
(*    double holds exactly;                                                *)
(*  - React batches the setState calls of one handler: every read of       *)
(*    this.state inside a handler sees the state the handler started       *)
(*    with, and the deltas are merged in call order when it returns.       *)
(*    A rule is therefore an operator (cur, pend) -> pend', cur being      *)
(*    this.state and pend the merged pending state.                        *)
(***************************************************************************)
EXTENDS Integers, Sequences, FiniteSets, TLC

VARIABLES
    action,         \* CreateVmAction: isClosed, the probed features and the probes
    props,          \* the properties of the dialog: mode and the probed features
    state,          \* CreateVmModal.state: the draft
    showModal,      \* CreateVmAction.state.showModal
    session,        \* number of CreateVmModal instances constructed so far
    typingTimeout,  \* CreateVmModal.typingTimeout: index in timers, 0 when unset
    timers,         \* the setTimeout calls of the 'source' case and what became of them
    creations,      \* the createVm calls dispatched, in dispatch order
    notifications,  \* the onAddErrorNotification calls, in call order
    now,            \* the clock of the event loop
    srcEdits,       \* history: number of 'source' edits so far
    burst,          \* history: the current burst of 'source' edits
    last,           \* history: the handler that changed the draft last
    prev            \* history: this.state as that handler found it

vars == <<action, props, state, showModal, session, typingTimeout, timers, creations,
          notifications, now, srcEdits, burst, last, prev>>

----------------------------------------------------------------------------
(* Bounds of the model *)

MaxEdits == 3       \* 'source' edits in one run
MaxTimers == 2      \* setTimeout calls of the 'source' case in one run
MaxCreations == 2   \* createVm calls in one run
MaxTicks == 4       \* clock ticks in one run
MaxOpens == 1       \* times the dialog is opened in one run
TickLength == 125   \* time units one clock tick advances

----------------------------------------------------------------------------
(* Source types, connections *)

URL_SOURCE == "url"
LOCAL_INSTALL_MEDIA_SOURCE == "file"
DOWNLOAD_AN_OS == "os"
EXISTING_DISK_IMAGE_SOURCE == "disk_image"
PXE_SOURCE == "pxe"

SourceTypes == {URL_SOURCE, LOCAL_INSTALL_MEDIA_SOURCE, DOWNLOAD_AN_OS,
                EXISTING_DISK_IMAGE_SOURCE, PXE_SOURCE}

LIBVIRT_SYSTEM_CONNECTION == "system"
LIBVIRT_SESSION_CONNECTION == "session"

Connections == {LIBVIRT_SYSTEM_CONNECTION, LIBVIRT_SESSION_CONNECTION}

----------------------------------------------------------------------------
(* Strings *)

\* the value undefined where a string is expected
UndefinedStr == <<"undefined">>

Whitespace == {" ", "\t"}

RECURSIVE TrimLeft(_)
TrimLeft(s) ==
    IF s = <<>> THEN <<>>
    ELSE IF Head(s) \in Whitespace THEN TrimLeft(Tail(s)) ELSE s

RECURSIVE TrimRight(_)
TrimRight(s) ==
    IF s = <<>> THEN <<>>
    ELSE IF s[Len(s)] \in Whitespace THEN TrimRight(SubSeq(s, 1, Len(s) - 1)) ELSE s

\* String.prototype.trim
Trim(s) == TrimRight(TrimLeft(s))

\* String.prototype.startsWith
StartsWith(s, prefix) ==
    /\ Len(s) >= Len(prefix)
    /\ SubSeq(s, 1, Len(prefix)) = prefix

\* value.split(" ").join("_"): every space becomes an underscore
SplitJoin(s) == [i \in 1..Len(s) |-> IF s[i] = " " THEN "_" ELSE s[i]]

\* helpers.js isEmpty
isEmpty(str) == str = UndefinedStr \/ Len(str) = 0

\* JavaScript truthiness of a string
Truthy(str) == str # UndefinedStr /\ Len(str) > 0

----------------------------------------------------------------------------
(* Numbers and units *)

Pow1024(k) == IF k = 0 THEN 1 ELSE IF k = 1 THEN 1024
              ELSE IF k = 2 THEN 1048576 ELSE 1073741824

RECURSIVE Norm(_, _)
Norm(m, e) ==
    IF m = 0 THEN [m |-> 0, e |-> 0]
    ELSE IF m % 1024 = 0 THEN Norm(m \div 1024, e + 1)
    ELSE [m |-> m, e |-> e]

Zero == Norm(0, 0)
Num(n) == Norm(n, 0)

\* the value undefined where a number is expected
UndefinedNum == [m |-> -1, e |-> 0]

\* a < b
Less(a, b) ==
    IF a.e = b.e THEN a.m < b.m
    ELSE IF a.e > b.e
         THEN IF a.m = 0 THEN b.m > 0
              ELSE IF a.e - b.e > 3 THEN FALSE
              ELSE b.m > 0 /\ a.m <= (b.m - 1) \div Pow1024(a.e - b.e)
         ELSE IF b.m = 0 THEN FALSE
              ELSE IF b.e - a.e > 3 THEN TRUE
              ELSE ~(b.m <= a.m \div Pow1024(b.e - a.e))

\* Math.min
Min(a, b) == IF Less(b, a) THEN b ELSE a

\* Math.floor
Floor(a) ==
    IF a.e >= 0 THEN a
    ELSE IF -a.e > 3 THEN Zero
    ELSE Norm(a.m \div Pow1024(-a.e), 0)

\* helpers.js units: the name of a unit and its base-1024 exponent
UnitNames == {"B", "KiB", "MiB", "GiB"}

base1024Exponent(unit) ==
    CASE unit = "B" -> 0 [] unit = "KiB" -> 1 [] unit = "MiB" -> 2 [] unit = "GiB" -> 3

\* helpers.js convertToUnit: input * 1024^inputUnit / 1024^outputUnit
convertToUnit(input, inputUnit, outputUnit) ==
    IF input.m = 0 THEN Zero
    ELSE Norm(input.m,
              input.e + base1024Exponent(inputUnit) - base1024Exponent(outputUnit))

----------------------------------------------------------------------------
(* The properties handed to the dialog (CreateVmAction.render) *)

\* CreateVmAction.defaultProps.nodeMaxMemory, in KiB: 1 GiB
nodeMaxMemory == 1048576

\* cockpit.permission({ admin: true }).user
permissionUser == [name |-> "admin", home |-> "/home/admin"]

\* the value undefined where an OS record is expected
NoOs == "undefined"

\* systemInfo.osInfoList: the catalog, by id
OsIds == {"fedora", "tinycore"}

\* an entry of the catalog that recommends less than 1 MiB of memory
SmallOsIds == {"dos"}

OsInfo(id) ==
    CASE id = "fedora" ->
           [id |-> "fedora", shortId |-> "fedora30",
            minimumResources |-> [ram |-> Norm(512, 2), storage |-> Norm(1, 3)],
            recommendedResources |-> [ram |-> Norm(2, 3), storage |-> Norm(2, 3)],
            unattendedInstallable |-> TRUE,
            profiles |-> <<"desktop", "jeos">>,
            medias |-> [dvd |-> TRUE, netinst |-> FALSE]]
      [] id = "tinycore" ->
           [id |-> "tinycore", shortId |-> "tinycore9",
            minimumResources |-> [ram |-> UndefinedNum, storage |-> UndefinedNum],
            recommendedResources |-> [ram |-> Norm(64, 2), storage |-> Norm(16, 2)],
            unattendedInstallable |-> FALSE,
            profiles |-> <<>>,
            medias |-> [k \in {} |-> FALSE]]
      [] id = "dos" ->
           [id |-> "dos", shortId |-> "msdos6.22",
            minimumResources |-> [ram |-> UndefinedNum, storage |-> UndefinedNum],
            recommendedResources |-> [ram |-> Norm(512, 1), storage |-> Norm(8, 2)],
            unattendedInstallable |-> FALSE,
            profiles |-> <<>>,
            medias |-> [k \in {} |-> FALSE]]

\* a resource hint that is present and not 0
HasHint(n) == n # UndefinedNum /\ n.m # 0

\* props.vms: the existing machines
vms == {[name |-> <<"a">>, connectionName |-> LIBVIRT_SYSTEM_CONNECTION],
        [name |-> <<"b">>, connectionName |-> LIBVIRT_SESSION_CONNECTION]}

\* props.storagePools
storagePools ==
    {[name |-> "default", connectionName |-> LIBVIRT_SYSTEM_CONNECTION,
      path |-> "/var/lib/libvirt/images", available |-> Norm(4, 3),
      volumes |-> <<>>],
     [name |-> "images", connectionName |-> LIBVIRT_SYSTEM_CONNECTION,
      path |-> "/srv/images", available |-> Norm(8, 3),
      volumes |-> <<"vol1", "vol2">>],
     [name |-> "home", connectionName |-> LIBVIRT_SESSION_CONNECTION,
      path |-> "/home/admin/.local/share/libvirt/images", available |-> Norm(512, 2),
      volumes |-> <<"disk1">>]}

PoolNames == {"NewVolume", "NoStorage", "default", "images", "home"}

\* props.networks: the virtual networks, by connection
networks == {[name |-> "default", connectionName |-> LIBVIRT_SYSTEM_CONNECTION]}

\* pxe-helpers.js getPXEInitialNetworkSource: "network=<first network>" of the
\* connection, undefined when the connection has none
PxeNetworkDefault == <<"n", "e", "t", "=", "d">>

getPXEInitialNetworkSource(connectionName) ==
    IF \E n \in networks : n.connectionName = connectionName
    THEN PxeNetworkDefault ELSE UndefinedStr

getPoolSpaceAvailable(pools, poolName, poolPath, connectionName) ==
    LET own == {p \in pools : p.connectionName = connectionName}
        found == IF poolName # "" THEN {p \in own : p.name = poolName}
                 ELSE IF poolPath # "" THEN {p \in own : p.path = poolPath}
                 ELSE {}
    IN IF found = {} THEN UndefinedNum ELSE (CHOOSE p \in found : TRUE).available

getSpaceAvailable(pools, connectionName) ==
    LET space == getPoolSpaceAvailable(pools, "default", "", connectionName)
        poolPath == IF connectionName = LIBVIRT_SYSTEM_CONNECTION
                    THEN "/var/lib/libvirt/images"
                    ELSE "/home/admin/.local/share/libvirt/images"
    IN IF HasHint(space) THEN space
       ELSE getPoolSpaceAvailable(pools, "", poolPath, connectionName)

----------------------------------------------------------------------------
(* The draft: CreateVmModal.state *)

\* the source type the constructor starts with
defaultSourceType(mode, downloadOSSupported) ==
    IF mode = "create"
    THEN IF ~downloadOSSupported THEN LOCAL_INSTALL_MEDIA_SOURCE ELSE DOWNLOAD_AN_OS
    ELSE EXISTING_DISK_IMAGE_SOURCE

\* this.state as the constructor leaves it; profile, sourceMediaID and
\* autodetectOSInProgress are not set there (undefined, falsy)
InitialState(mode, downloadOSSupported, maxMemory) ==
    [inProgress |-> FALSE,
     validate |-> FALSE,
     vmName |-> <<>>,
     connectionName |-> LIBVIRT_SYSTEM_CONNECTION,
     sourceType |-> defaultSourceType(mode, downloadOSSupported),
     unattendedInstallation |-> FALSE,
     source |-> <<>>,
     os |-> NoOs,
     memorySize |-> Min(convertToUnit(Num(1024), "MiB", "GiB"),
                        Floor(convertToUnit(Num(maxMemory), "KiB", "GiB"))),
     memorySizeUnit |-> "GiB",
     storageSize |-> Min(convertToUnit(Num(10 * 1024), "MiB", "GiB"),
                         Floor(convertToUnit(Num(maxMemory), "KiB", "GiB"))),
     storageSizeUnit |-> "GiB",
     storagePool |-> "NewVolume",
     storageVolume |-> "",
     startVm |-> TRUE,
     recommendedMemory |-> UndefinedNum,
     minimumMemory |-> Zero,
     recommendedStorage |-> UndefinedNum,
     minimumStorage |-> Zero,
     userPassword |-> "",
     rootPassword |-> "",
     profile |-> "undefined",
     sourceMediaID |-> "undefined",
     autodetectOSInProgress |-> FALSE]

\* this.setState(delta) on the pending state
SetState(pend, delta) ==
    [f \in DOMAIN pend |-> IF f \in DOMAIN delta THEN delta[f] ELSE pend[f]]

----------------------------------------------------------------------------
(* onValueChanged, one operator per case; cur is this.state *)

\* case 'vmName'
RuleVmName(cur, pend, value) == SetState(pend, [vmName |-> SplitJoin(value)])

\* case 'source': the state part (the timer is in the action EditSource)
RuleSource(cur, pend, value) == SetState(pend, [source |-> value])

\* whether the 'source' case schedules an auto-detection of value
SourceSchedulesDetect(cur, value) ==
    /\ cur.sourceType = URL_SOURCE \/ cur.sourceType = LOCAL_INSTALL_MEDIA_SOURCE
    /\ value # <<>>
    /\ value # UndefinedStr

\* case 'sourceType', reading the source type after it was stored
RuleSourceTypeReadsPending(cur, pend, value) ==
    LET p1 == SetState(pend, [sourceType |-> value])
    IN IF value = PXE_SOURCE
       THEN SetState(p1, [source |-> getPXEInitialNetworkSource(cur.connectionName)])
       ELSE IF p1.sourceType = PXE_SOURCE /\ value # PXE_SOURCE
            THEN SetState(p1, [source |-> <<>>])
            ELSE p1

\* case 'sourceType'
RuleSourceType(cur, pend, value) ==
    LET p1 == SetState(pend, [sourceType |-> value])
    IN IF value = PXE_SOURCE
       THEN SetState(p1, [source |-> getPXEInitialNetworkSource(cur.connectionName)])
       ELSE IF cur.sourceType = PXE_SOURCE /\ value # PXE_SOURCE
            THEN SetState(p1, [source |-> <<>>])
            ELSE p1

\* case 'storagePool'
RuleStoragePool(cur, pend, value) ==
    LET found == {pool \in storagePools :
                    pool.connectionName = cur.connectionName /\ pool.name = value}
        volumes == IF found = {} THEN <<>> ELSE (CHOOSE pool \in found : TRUE).volumes
    IN SetState(pend, [storagePool |-> value,
                       storageVolume |-> IF volumes = <<>> THEN "undefined"
                                         ELSE volumes[1]])

\* case 'storageVolume'
RuleStorageVolume(cur, pend, value) == SetState(pend, [storageVolume |-> value])

\* case 'memorySize'
RuleMemorySize(cur, pend, value) ==
    SetState(pend,
             [memorySize |->
                 Min(value, Floor(convertToUnit(Num(props.nodeMaxMemory), "KiB",
                                                cur.memorySizeUnit)))])

\* case 'storageSize'
RuleStorageSize(cur, pend, value) ==
    LET own == {pool \in storagePools : pool.connectionName = cur.connectionName}
        spaceAvailable == getSpaceAvailable(own, cur.connectionName)
    IN SetState(pend,
                [storageSize |->
                    IF HasHint(spaceAvailable)
                    THEN Min(value, Floor(convertToUnit(spaceAvailable, "B",
                                                        cur.storageSizeUnit)))
                    ELSE value])

\* case 'memorySizeUnit', storing the unit alone
RuleMemorySizeUnitKeepsValue(cur, pend, value) ==
    SetState(pend, [memorySizeUnit |-> value])

\* case 'memorySizeUnit'
RuleMemorySizeUnit(cur, pend, value) ==
    SetState(SetState(pend, [memorySizeUnit |-> value]),
             [memorySize |-> convertToUnit(cur.memorySize, cur.memorySizeUnit, value)])

\* case 'storageSizeUnit'
RuleStorageSizeUnit(cur, pend, value) ==
    SetState(SetState(pend, [storageSizeUnit |-> value]),
             [storageSize |-> convertToUnit(cur.storageSize, cur.storageSizeUnit, value)])

\* case 'startVm'
RuleStartVm(cur, pend, value) == SetState(pend, [startVm |-> value])

\* case 'unattendedInstallation', storing the flag alone
RuleUnattendedInstallationFlagOnly(cur, pend, value) ==
    SetState(pend, [unattendedInstallation |-> value])

\* case 'unattendedInstallation'

RuleUnattendedInstallation(cur, pend, value) ==
    SetState(pend, [unattendedInstallation |-> value, startVm |-> TRUE])

\* case 'connectionName', leaving the selected storage pool as it is
RuleConnectionNameKeepsPool(cur, pend, value) ==
    LET p1 == SetState(pend, [connectionName |-> value])
    IN IF cur.sourceType = PXE_SOURCE /\ value = LIBVIRT_SESSION_CONNECTION
       THEN RuleSourceType(cur, p1, LOCAL_INSTALL_MEDIA_SOURCE)
       ELSE p1

\* case 'connectionName'
RuleConnectionName(cur, pend, value) ==
    LET p1 == SetState(pend, [connectionName |-> value])
        p2 == IF cur.sourceType = PXE_SOURCE /\ value = LIBVIRT_SESSION_CONNECTION
              THEN RuleSourceType(cur, p1, LOCAL_INSTALL_MEDIA_SOURCE)
              ELSE p1
    IN IF cur.storagePool # "NewVolume" /\ cur.storagePool # "NoStorage"
       THEN SetState(p2, [storagePool |-> "NewVolume"])
       ELSE p2

\* value.profiles.sort().reverse()[0]: the last profile in string order
LastProfile(profiles) ==
    IF profiles = <<>> THEN "undefined"
    ELSE IF \E i \in 1..Len(profiles) : profiles[i] = "jeos" THEN "jeos"
    ELSE "desktop"

\* case 'os'; value is an id of the catalog (NoOs: value.unattendedInstallable
\* throws before any setState of the case has run)
RuleOs(cur, pend, value) ==
    IF value = NoOs THEN pend
    ELSE
    LET os == OsInfo(value)
        ram == os.recommendedResources.ram
        storage == os.recommendedResources.storage
        convertedRam == Floor(convertToUnit(ram, "B", cur.memorySizeUnit))
        convertedStorage == Floor(convertToUnit(storage, "B", cur.storageSizeUnit))
        d1 == [os |-> value]
        d2 == IF HasHint(os.minimumResources.ram)
              THEN d1 @@ [minimumMemory |-> os.minimumResources.ram] ELSE d1
        d3 == d2 @@ [profile |-> LastProfile(os.profiles)]
        d4 == d3 @@ [recommendedMemory |-> IF HasHint(ram) THEN ram ELSE UndefinedNum]
        p1 == IF HasHint(ram)
              THEN IF convertedRam = Zero
                   THEN SetState(pend,
                          [memorySizeUnit |-> "MiB",
                           memorySize |-> Floor(convertToUnit(ram, "B", "MiB"))])
                   ELSE RuleMemorySize(cur, pend, convertedRam)
              ELSE pend
        d5 == IF HasHint(os.minimumResources.storage)
              THEN d4 @@ [minimumStorage |-> os.minimumResources.storage] ELSE d4
        d6 == d5 @@ [recommendedStorage |->
                        IF HasHint(storage) THEN storage ELSE UndefinedNum]
        p2 == IF HasHint(storage)
              THEN IF convertedStorage = Zero
                   THEN SetState(p1,
                          [storageSizeUnit |-> "MiB",
                           storageSize |-> Floor(convertToUnit(storage, "B", "MiB"))])
                   ELSE RuleStorageSize(cur, p1, convertedStorage)
              ELSE p1
        p3 == IF ~os.unattendedInstallable
              THEN RuleUnattendedInstallation(cur, p2, FALSE)
              ELSE p2
    IN SetState(p3, d6)

\* default: the value is stored as it is
RuleDefault(cur, pend, key, value) == SetState(pend, [k \in {key} |-> value])

----------------------------------------------------------------------------
(* Validation *)

\* an object with no property
EmptyObject == [k \in {} |-> ""]

\* String.prototype.toLowerCase on the letters the model uses
ToLowerCase(s) == [i \in 1..Len(s) |-> IF s[i] = "A" THEN "a"
                                       ELSE IF s[i] = "B" THEN "b" ELSE s[i]]

SameNameIgnoringCase(a, b) == ToLowerCase(a) = ToLowerCase(b)

\* vm.name === vmParams.vmName
SameName(a, b) == a = b

\* validateParams(vmParams): the failed sections, each with its message
validateParamsName(vmParams) ==
    IF isEmpty(Trim(vmParams.vmName))
    THEN [vmName |-> "Name must not be empty"]
    ELSE IF \E vm \in vmParams.vms : SameName(vm.name, vmParams.vmName)
         THEN [vmName |-> "VM $0 already exists"]
         ELSE EmptyObject

validateParamsOsOptional(vmParams) == EmptyObject

validateParamsOs(vmParams) ==
    IF vmParams.os = NoOs
    THEN [os |-> "You need to select the most closely matching Operating System"]
    ELSE EmptyObject

validateParamsSource(vmParams) ==
    LET source == IF Truthy(vmParams.source) THEN Trim(vmParams.source)
                  ELSE UndefinedStr
    IN IF ~isEmpty(source)
       THEN CASE vmParams.sourceType = PXE_SOURCE -> EmptyObject
              [] vmParams.sourceType \in {LOCAL_INSTALL_MEDIA_SOURCE,
                                          EXISTING_DISK_IMAGE_SOURCE} ->
                   IF ~StartsWith(vmParams.source, <<"/">>)
                   THEN [source |-> "Invalid filename"] ELSE EmptyObject
              [] OTHER ->
                   IF /\ ~StartsWith(vmParams.source, <<"h", "t", "t", "p">>)
                      /\ ~StartsWith(vmParams.source, <<"f", "t", "p">>)
                      /\ ~StartsWith(vmParams.source, <<"n", "f", "s">>)
                   THEN [source |-> "Source should start with http, ftp or nfs protocol"]
                   ELSE EmptyObject
       ELSE IF vmParams.sourceType # DOWNLOAD_AN_OS
            THEN [source |-> "Installation Source must not be empty"]
            ELSE EmptyObject

\* the memory check with the comparison against the minimum alone
validateParamsMemoryBelowMinimum(vmParams) ==
    IF /\ vmParams.os # NoOs
       /\ HasHint(OsInfo(vmParams.os).minimumResources.ram)
       /\ Less(convertToUnit(vmParams.memorySize, vmParams.memorySizeUnit, "B"),
               OsInfo(vmParams.os).minimumResources.ram)
    THEN [memory |-> "The selected Operating System has minimum memory requirement"]
    ELSE EmptyObject

validateParamsMemory(vmParams) ==
    IF vmParams.memorySize = Zero
    THEN [memory |-> "Memory must not be 0"]
    ELSE IF /\ vmParams.os # NoOs
            /\ HasHint(OsInfo(vmParams.os).minimumResources.ram)
            /\ Less(convertToUnit(vmParams.memorySize, vmParams.memorySizeUnit, "B"),
                    OsInfo(vmParams.os).minimumResources.ram)
         THEN [memory |-> "The selected Operating System has minimum memory requirement"]
         ELSE EmptyObject

validateParamsStorage(vmParams) ==
    IF vmParams.sourceType # EXISTING_DISK_IMAGE_SOURCE /\ vmParams.storagePool = "NewVolume"
    THEN IF vmParams.storageSize = Zero
         THEN [storage |-> "Storage size must not be 0"]
         ELSE IF /\ vmParams.os # NoOs
                 /\ HasHint(OsInfo(vmParams.os).minimumResources.storage)
                 /\ Less(convertToUnit(vmParams.storageSize, vmParams.storageSizeUnit, "B"),
                         OsInfo(vmParams.os).minimumResources.storage)
              THEN [storage |-> "The selected Operating System has minimum storage size requirement"]
              ELSE EmptyObject
    ELSE EmptyObject

validateParamsPassword(vmParams) ==
    IF /\ vmParams.unattendedInstallation
       /\ vmParams.rootPassword = ""
       /\ (permissionUser.name = "root" \/ vmParams.userPassword = "")
    THEN [password |-> "Please set a root or a user password"]
    ELSE EmptyObject

validateParams(vmParams) ==
    validateParamsName(vmParams) @@ validateParamsOs(vmParams) @@
    validateParamsSource(vmParams) @@ validateParamsMemory(vmParams) @@
    validateParamsStorage(vmParams) @@ validateParamsPassword(vmParams)

\* { ...this.state, osInfoList, vms: vms.filter(vm => vm.connectionName ==
\*   this.state.connectionName) }
AllVms(st) == vms

VmsOfConnection(st) == {vm \in vms : vm.connectionName = st.connectionName}

ValidationArgument(st) == st @@ [vms |-> VmsOfConnection(st)]

\* the validation report of a draft, as onCreateClicked and render compute it
Validation(st) == validateParams(ValidationArgument(st))

\* Object.getOwnPropertyNames(validation).length > 0
HasFailures(validation) == DOMAIN validation # {}

----------------------------------------------------------------------------
(* What render offers: which inputs exist and which are disabled *)

\* render: unattendedDisabled
unattendedDisabled(st) ==
    IF (st.sourceType = URL_SOURCE \/ st.sourceType = LOCAL_INSTALL_MEDIA_SOURCE)
       /\ st.os # NoOs
    THEN IF st.sourceMediaID \in DOMAIN OsInfo(st.os).medias
         THEN ~OsInfo(st.os).medias[st.sourceMediaID]
         ELSE ~OsInfo(st.os).unattendedInstallable
    ELSE IF st.sourceType = DOWNLOAD_AN_OS
         THEN st.os = NoOs \/ ~OsInfo(st.os).unattendedInstallable
         ELSE TRUE

\* render: the UnattendedRow is part of the form
UnattendedRowShown(st) ==
    /\ st.sourceType # PXE_SOURCE
    /\ st.sourceType # EXISTING_DISK_IMAGE_SOURCE
    /\ props.unattendedSupported

\* render: the Create button is disabled while a shown validation report has failures
CreateButtonDisabled(st) == st.validate /\ HasFailures(Validation(st))

\* SourceRow: the entries of the installation type select that can be chosen
SourceTypeEntries(st) ==
    {LOCAL_INSTALL_MEDIA_SOURCE, URL_SOURCE}
    \cup (IF props.downloadOSSupported THEN {DOWNLOAD_AN_OS} ELSE {})
    \cup (IF st.connectionName # LIBVIRT_SESSION_CONNECTION THEN {PXE_SOURCE} ELSE {})

\* StorageRow: the entries of the storage pool select
StoragePoolEntries(st) ==
    {"NewVolume", "NoStorage"} \cup
    {pool.name : pool \in {q \in storagePools :
                              q.connectionName = st.connectionName /\ q.volumes # <<>>}}

----------------------------------------------------------------------------
(* The values the user and the collaborators supply *)

PropChoices ==
    {[mode |-> "create", downloadOSSupported |-> TRUE, unattendedSupported |-> TRUE,
      nodeMaxMemory |-> nodeMaxMemory],
     [mode |-> "create", downloadOSSupported |-> FALSE, unattendedSupported |-> TRUE,
      nodeMaxMemory |-> nodeMaxMemory],
     [mode |-> "import", downloadOSSupported |-> TRUE, unattendedSupported |-> FALSE,
      nodeMaxMemory |-> nodeMaxMemory]}

\* props.nodeMaxMemory of the nodes the sizes are followed on, in KiB:
\* 1 GiB (the default), 1.5 GiB and 0.5 GiB
NodeChoices ==
    {[mode |-> "create", downloadOSSupported |-> TRUE, unattendedSupported |-> TRUE,
      nodeMaxMemory |-> kib] : kib \in {nodeMaxMemory, 1572864, 524288}}

\* what MemorySelectRow hands to onValueChanged('memorySize' / 'storageSize')
SizeInputs == {Zero, Num(1), Num(1536)}

NameInputs == {<<>>, <<"a">>, <<"A">>, <<"b">>, <<"\t">>, <<"a", " ">>}

\* the names typed where the submission is followed: an empty one and a free one
TypedNames == {<<>>, <<"b">>}

SourceInputs == {<<>>, <<"/", "a">>, <<"h", "t", "t", "p">>, <<"x">>}

TypedSources == {<<"/", "a">>}

PxeInputs == {PxeNetworkDefault, <<"t", "y", "p", "e">>}

\* what osinfo-detect answers: the id of an OS and the id of the media
DetectResults ==
    {[os |-> "fedora", media |-> "dvd"],
     [os |-> "tinycore", media |-> "undefined"],
     [os |-> "unknown", media |-> "undefined"]}

FailureMessages == {"virt-install failed"}

----------------------------------------------------------------------------
(* The re-entrant calls of onValueChanged *)

\* the keys onValueChanged is called with, and the then-callback of the
\* detection, which calls it too
Keys ==
    {"vmName", "source", "sourceType", "storagePool", "storageVolume",
     "memorySize", "storageSize", "memorySizeUnit", "storageSizeUnit", "startVm",
     "connectionName", "os", "unattendedInstallation", "sourceMediaID",
     "rootPassword", "userPassword", "autodetectOS.then"}

\* the calls with an echo: the 'unattendedInstallation' case calls the 'os' case
TriggersWithEcho(key) ==
    CASE key = "connectionName" -> {"sourceType"}
      [] key = "os" -> {"memorySize", "storageSize", "unattendedInstallation"}
      [] key = "unattendedInstallation" -> {"os"}
      [] key = "autodetectOS.then" -> {"os", "sourceMediaID"}
      [] OTHER -> {}

\* the keys the case of key calls this.onValueChanged with
Triggers(key) ==
    CASE key = "connectionName" -> {"sourceType"}
      [] key = "os" -> {"memorySize", "storageSize", "unattendedInstallation"}
      [] key = "autodetectOS.then" -> {"os", "sourceMediaID"}
      [] OTHER -> {}

\* the fields of this.state the case of key hands to this.setState itself
Writes(key) ==
    CASE key = "sourceType" -> {"sourceType", "source"}
      [] key = "storagePool" -> {"storagePool", "storageVolume"}
      [] key = "memorySizeUnit" -> {"memorySizeUnit", "memorySize"}
      [] key = "storageSizeUnit" -> {"storageSizeUnit", "storageSize"}
      [] key = "connectionName" -> {"connectionName", "storagePool"}
      [] key = "os" -> {"os", "minimumMemory", "profile", "recommendedMemory",
                        "memorySizeUnit", "memorySize", "minimumStorage",
                        "recommendedStorage", "storageSizeUnit", "storageSize"}
      [] key = "unattendedInstallation" -> {"unattendedInstallation", "startVm"}
      [] key = "autodetectOS.then" -> {"autodetectOSInProgress"}
      [] OTHER -> {key}

\* the keys reached from the keys of S in at most n further calls
RECURSIVE Closure(_, _)
Closure(S, n) ==
    IF n = 0 THEN S
    ELSE Closure(S \cup UNION {Triggers(k) : k \in S}, n - 1)

\* the keys a call with key leads to, directly or through other cases
Reach(key) == Closure(Triggers(key), Cardinality(Keys))

----------------------------------------------------------------------------
(* Initial state: CreateVmAction is constructed, the dialog is not shown *)

Init ==
    /\ action = [isClosed |-> FALSE,
                 virtInstallAvailable |-> "undefined",
                 downloadOSSupported |-> "undefined",
                 unattendedSupported |-> "undefined",
                 which |-> "pending", install |-> "none", unattended |-> "none",
                 late |-> 0]
    /\ props = [mode |-> "create", downloadOSSupported |-> TRUE,
                unattendedSupported |-> TRUE, nodeMaxMemory |-> nodeMaxMemory]
    /\ state = InitialState("create", TRUE, nodeMaxMemory)
    /\ showModal = FALSE
    /\ session = 0
    /\ typingTimeout = 0
    /\ timers = <<>>
    /\ creations = <<>>
    /\ notifications = <<>>
    /\ now = 0
    /\ srcEdits = 0
    /\ burst = [last |-> -1, started |-> 0]
    /\ last = [key |-> "", value |-> ""]
    /\ prev = state

\* history: the handler called with (key, value) found this.state as it is now;
\* the value is kept as it prints, texts, choices and flags alike
Handled(key, value) ==
    /\ last' = [key |-> key, value |-> ToString(value)]
    /\ prev' = state

\* whether the CreateVmModal instance number sess is the mounted one
Mounted(sess) == showModal /\ ~action.isClosed /\ sess = session

\* render: the modal is on the page
Shown == showModal /\ ~action.isClosed

\* render: the Create VM button is enabled (testdata is undefined)
ButtonEnabled ==
    /\ action.virtInstallAvailable = "true"
    /\ action.downloadOSSupported # "undefined"
    /\ action.unattendedSupported # "undefined"

\* render: the probed features, as they are handed to the modal
FeaturesOf(p) ==
    /\ p.downloadOSSupported = (action.downloadOSSupported = "true")
    /\ p.unattendedSupported = (action.unattendedSupported = "true")

----------------------------------------------------------------------------
(* CreateVmAction: open and close *)

\* open(): the modal is constructed with the current properties
Open ==
    /\ ~action.isClosed
    /\ ButtonEnabled
    /\ ~showModal
    /\ session < MaxOpens
    /\ \E p \in PropChoices :
          /\ FeaturesOf(p)
          /\ props' = p
          /\ state' = InitialState(p.mode, p.downloadOSSupported, p.nodeMaxMemory)
    /\ showModal' = TRUE
    /\ session' = session + 1
    /\ typingTimeout' = 0
    /\ last' = [key |-> "", value |-> ""]
    /\ prev' = state'
    /\ UNCHANGED <<action, timers, creations, notifications, now, srcEdits, burst>>

\* open() on a node of another size
OpenOnNode ==
    /\ ~action.isClosed
    /\ ButtonEnabled
    /\ ~showModal
    /\ session < MaxOpens
    /\ \E p \in NodeChoices :
          /\ FeaturesOf(p)
          /\ props' = p
          /\ state' = InitialState(p.mode, p.downloadOSSupported, p.nodeMaxMemory)
    /\ showModal' = TRUE
    /\ session' = session + 1
    /\ typingTimeout' = 0
    /\ last' = [key |-> "", value |-> ""]
    /\ prev' = state'
    /\ UNCHANGED <<action, timers, creations, notifications, now, srcEdits, burst>>

\* close(): showModal after the call
closeLeavesOpen(show) == show

close(show) == IF action.isClosed THEN show ELSE FALSE

\* close() by the Cancel button, the close button or onHide
Cancel ==
    /\ Shown
    /\ showModal' = close(showModal)
    /\ UNCHANGED <<action, props, state, session, typingTimeout, timers, creations,
                   notifications, now, srcEdits, burst, last, prev>>

\* everything but CreateVmAction's own fields
dialog == <<props, state, showModal, session, typingTimeout, timers, creations,
            notifications, now, srcEdits, burst, last, prev>>

\* this.setState(delta) of CreateVmAction, called without a test of isClosed:
\* React discards the update of an unmounted component, the call is counted
ActionSetState(act, delta) ==
    IF act.isClosed THEN [act EXCEPT !.late = @ + 1]
    ELSE [f \in DOMAIN act |-> IF f \in DOMAIN delta THEN delta[f] ELSE act[f]]

\* 'which virt-install' answers: the then-callback stores the flag and spawns
\* the two feature probes
WhichSucceeds ==
    /\ action.which = "pending"
    /\ action' = [ActionSetState(action, [virtInstallAvailable |-> "true"])
                    EXCEPT !.which = "done", !.install = "pending",
                           !.unattended = "pending"]
    /\ UNCHANGED dialog

\* 'which virt-install' fails
WhichFails ==
    /\ action.which = "pending"
    /\ action' = [ActionSetState(action, [virtInstallAvailable |-> "false"])
                    EXCEPT !.which = "done"]
    /\ UNCHANGED dialog

\* 'virt-install --install=?' answers or fails
InstallProbeAnswers ==
    /\ action.install = "pending"
    /\ \E supported \in {"true", "false"} :
          action' = [ActionSetState(action, [downloadOSSupported |-> supported])
                       EXCEPT !.install = "done"]
    /\ UNCHANGED dialog

\* 'virt-install --unattended=?' answers or fails
UnattendedProbeAnswers ==
    /\ action.unattended = "pending"
    /\ \E supported \in {"true", "false"} :
          action' = [ActionSetState(action, [unattendedSupported |-> supported])
                       EXCEPT !.unattended = "done"]
    /\ UNCHANGED dialog

\* componentWillUnmount
Unmount ==
    /\ ~action.isClosed
    /\ action' = [action EXCEPT !.isClosed = TRUE]
    /\ UNCHANGED dialog

\* time passes
Tick ==
    /\ now < MaxTicks * TickLength
    /\ now' = now + TickLength
    /\ UNCHANGED <<action, props, state, showModal, session, typingTimeout, timers,
                   creations, notifications, srcEdits, burst, last, prev>>

----------------------------------------------------------------------------
(* The field edits of the form: onValueChanged(key, value) from an input *)

frame == <<action, props, showModal, session, typingTimeout, timers, creations,
           notifications, now, srcEdits, burst>>

EditName ==
    /\ Shown
    /\ \E value \in NameInputs :
          /\ state' = RuleVmName(state, state, value)
          /\ Handled("vmName", value)
    /\ UNCHANGED frame

\* the same edit, with the names of the submission scenarios
TypeName ==
    /\ Shown
    /\ \E value \in TypedNames :
          /\ state' = RuleVmName(state, state, value)
          /\ Handled("vmName", value)
    /\ UNCHANGED frame

ChangeSourceType ==
    /\ Shown
    /\ state.sourceType # EXISTING_DISK_IMAGE_SOURCE
    /\ \E value \in SourceTypeEntries(state) :
          /\ state' = RuleSourceType(state, state, value)
          /\ Handled("sourceType", value)
    /\ UNCHANGED frame

ChangeConnection ==
    /\ Shown
    /\ \E value \in Connections :
          /\ state' = RuleConnectionName(state, state, value)
          /\ Handled("connectionName", value)
    /\ UNCHANGED frame

SelectOs ==
    /\ Shown
    /\ \E value \in OsIds :
          /\ state' = RuleOs(state, state, value)
          /\ Handled("os", value)
    /\ UNCHANGED frame

ToggleUnattended ==
    /\ Shown
    /\ UnattendedRowShown(state)
    /\ ~unattendedDisabled(state)
    /\ state' = RuleUnattendedInstallation(state, state, ~state.unattendedInstallation)
    /\ Handled("unattendedInstallation", ~state.unattendedInstallation)
    /\ UNCHANGED frame

ToggleStartVm ==
    /\ Shown
    /\ ~state.unattendedInstallation
    /\ state' = RuleStartVm(state, state, ~state.startVm)
    /\ Handled("startVm", ~state.startVm)
    /\ UNCHANGED frame

\* OSRow onChange with the whole catalog
SelectAnyOs ==
    /\ Shown
    /\ \E value \in OsIds \cup SmallOsIds :
          /\ state' = RuleOs(state, state, value)
          /\ Handled("os", value)
    /\ UNCHANGED frame

\* MemoryRow: onValueChanged('memorySize', value)
EditMemorySize ==
    /\ Shown
    /\ \E value \in SizeInputs :
          /\ state' = RuleMemorySize(state, state, value)
          /\ Handled("memorySize", value)
    /\ UNCHANGED frame

\* MemoryRow: onValueChanged('memorySizeUnit', value)
ChangeMemorySizeUnit ==
    /\ Shown
    /\ \E value \in UnitNames :
          /\ state' = RuleMemorySizeUnit(state, state, value)
          /\ Handled("memorySizeUnit", value)
    /\ UNCHANGED frame

\* StorageRow: onValueChanged('storageSize', value)
EditStorageSize ==
    /\ Shown
    /\ state.storagePool = "NewVolume"
    /\ \E value \in SizeInputs :
          /\ state' = RuleStorageSize(state, state, value)
          /\ Handled("storageSize", value)
    /\ UNCHANGED frame

\* StorageRow: onValueChanged('storageSizeUnit', value)
ChangeStorageSizeUnit ==
    /\ Shown
    /\ state.storagePool = "NewVolume"
    /\ \E value \in UnitNames :
          /\ state' = RuleStorageSizeUnit(state, state, value)
          /\ Handled("storageSizeUnit", value)
    /\ UNCHANGED frame

SelectStoragePool ==
    /\ Shown
    /\ state.sourceType # EXISTING_DISK_IMAGE_SOURCE
    /\ \E value \in StoragePoolEntries(state) :
          /\ state' = RuleStoragePool(state, state, value)
          /\ Handled("storagePool", value)
    /\ UNCHANGED frame

EditRootPassword ==
    /\ Shown
    /\ UnattendedRowShown(state)
    /\ ~unattendedDisabled(state)
    /\ state.unattendedInstallation
    /\ \E value \in {"", "secret"} :
          /\ state' = RuleDefault(state, state, "rootPassword", value)
          /\ Handled("rootPassword", value)
    /\ UNCHANGED frame

----------------------------------------------------------------------------
(* The 'source' case and the OS auto-detection it schedules *)

\* the delay of the setTimeout of the 'source' case
DebounceDelay == 250

\* clearTimeout(id): a timer that has not fired yet never will
ClearTimeout(ts, id) ==
    IF id \in 1..Len(ts) /\ ts[id].status = "scheduled"
    THEN [ts EXCEPT ![id].status = "cleared"]
    ELSE ts

\* setTimeout(() => onOsAutodetect(value), 250) by the edit number edit
NewTimer(value, edit) ==
    [value |-> value, session |-> session, edit |-> edit,
     due |-> now + DebounceDelay, status |-> "scheduled"]

\* history: an edit that comes a full delay after the last one starts a new burst
BurstAfterEdit ==
    IF burst.last < 0 \/ now - burst.last >= DebounceDelay
    THEN [last |-> now, started |-> 0]
    ELSE [burst EXCEPT !.last = now]

\* onValueChanged('source', value) from the file, URL or network input
EditSource ==
    /\ Shown
    /\ srcEdits < MaxEdits
    /\ state.sourceType # DOWNLOAD_AN_OS
    /\ \E value \in (IF state.sourceType = PXE_SOURCE THEN PxeInputs ELSE SourceInputs) :
          /\ state' = RuleSource(state, state, value)
          /\ Handled("source", value)
          /\ IF SourceSchedulesDetect(state, value)
             THEN /\ Len(timers) < MaxTimers
                  /\ timers' = Append(ClearTimeout(timers, typingTimeout),
                                      NewTimer(value, srcEdits + 1))
                  /\ typingTimeout' = Len(timers) + 1
             ELSE UNCHANGED <<timers, typingTimeout>>
    /\ srcEdits' = srcEdits + 1
    /\ burst' = BurstAfterEdit
    /\ UNCHANGED <<action, props, showModal, session, creations, notifications, now>>

\* the same edit, with the one path of the cascade scenarios
TypeSource ==
    /\ Shown
    /\ srcEdits < MaxEdits
    /\ state.sourceType # DOWNLOAD_AN_OS
    /\ \E value \in (IF state.sourceType = PXE_SOURCE THEN {PxeNetworkDefault}
                     ELSE TypedSources) :
          /\ state' = RuleSource(state, state, value)
          /\ Handled("source", value)
          /\ IF SourceSchedulesDetect(state, value)
             THEN /\ Len(timers) < MaxTimers
                  /\ timers' = Append(ClearTimeout(timers, typingTimeout),
                                      NewTimer(value, srcEdits + 1))
                  /\ typingTimeout' = Len(timers) + 1
             ELSE UNCHANGED <<timers, typingTimeout>>
    /\ srcEdits' = srcEdits + 1
    /\ burst' = BurstAfterEdit
    /\ UNCHANGED <<action, props, showModal, session, creations, notifications, now>>

\* the timer fires: onOsAutodetect(value) sets the indicator and calls autodetectOS
TypingTimeoutFires ==
    \E i \in 1..Len(timers) :
       /\ timers[i].status = "scheduled"
       /\ now >= timers[i].due
       /\ timers' = [timers EXCEPT ![i].status = "pending"]
       /\ state' = IF Mounted(timers[i].session)
                   THEN SetState(state, [autodetectOSInProgress |-> TRUE])
                   ELSE state
       /\ burst' = [burst EXCEPT !.started = burst.started + 1]
       /\ Handled("onOsAutodetect", timers[i].value)
       /\ UNCHANGED <<action, props, showModal, session, typingTimeout, creations,
                      notifications, now, srcEdits>>

\* the then-callback of autodetectOS(os): the detected OS, when the catalog has
\* it, goes through the 'os' case and the media id through the default case
OnDetected(st, res) ==
    IF res.os \in OsIds
    THEN LET p0 == SetState(st, [autodetectOSInProgress |-> FALSE])
             p1 == RuleOs(st, p0, res.os)
         IN RuleDefault(st, p1, "sourceMediaID", res.media)
    ELSE st

AutodetectResolves ==
    \E i \in 1..Len(timers) : \E res \in DetectResults :
       /\ timers[i].status = "pending"
       /\ timers' = [timers EXCEPT ![i].status = "resolved"]
       /\ state' = IF Mounted(timers[i].session) THEN OnDetected(state, res) ELSE state
       /\ Handled("autodetectOS.then", res.os)
       /\ UNCHANGED <<action, props, showModal, session, typingTimeout, creations,
                      notifications, now, srcEdits, burst>>

\* the catch-callback of autodetectOS(os)
AutodetectRejects ==
    \E i \in 1..Len(timers) :
       /\ timers[i].status = "pending"
       /\ timers' = [timers EXCEPT ![i].status = "rejected"]
       /\ Handled("autodetectOS.catch", "")
       /\ state' = IF Mounted(timers[i].session)
                   THEN SetState(state, [autodetectOSInProgress |-> FALSE])
                   ELSE state
       /\ UNCHANGED <<action, props, showModal, session, typingTimeout, creations,
                      notifications, now, srcEdits, burst>>

----------------------------------------------------------------------------
(* Submission: onCreateClicked and the race of createVm against the timeout *)

\* the vmParams object handed to createVm
Snapshot(st) ==
    [connectionName |-> st.connectionName,
     vmName |-> st.vmName,
     source |-> st.source,
     sourceType |-> st.sourceType,
     os |-> IF st.os # NoOs THEN OsInfo(st.os).shortId ELSE "auto",
     profile |-> st.profile,
     memorySize |-> convertToUnit(st.memorySize, st.memorySizeUnit, "MiB"),
     storageSize |-> convertToUnit(st.storageSize, st.storageSizeUnit, "GiB"),
     storagePool |-> st.storagePool,
     storageVolume |-> st.storageVolume,
     startVm |-> st.startVm,
     unattended |-> st.unattendedInstallation,
     userPassword |-> st.userPassword,
     rootPassword |-> st.rootPassword]

SubmitsUnvalidated(st) == TRUE

\* whether onCreateClicked dispatches createVm for the draft

Submits(st) == ~HasFailures(Validation(st))

\* timeoutedPromise(promise, delay, afterTimeoutHandler, afterTimeoutFailHandler):
\* a call starts unsettled, its timer armed
NewCreation(st) ==
    [vmParams |-> Snapshot(st), session |-> session, status |-> "pending",
     done |-> FALSE, timer |-> "armed", error |-> "", refreshed |-> FALSE]

\* onCreateClicked, by the Create button
CreateClicked ==
    /\ Shown
    /\ ~CreateButtonDisabled(state)
    /\ Handled("onCreateClicked", "")
    /\ IF Submits(state)
       THEN /\ Len(creations) < MaxCreations
            /\ state' = SetState(state, [inProgress |-> TRUE, validate |-> FALSE])
            /\ creations' = Append(creations, NewCreation(state))
       ELSE /\ state' = SetState(state, [inProgress |-> FALSE, validate |-> TRUE])
            /\ UNCHANGED creations
    /\ UNCHANGED <<action, props, showModal, session, typingTimeout, timers, notifications,
                   now, srcEdits, burst>>

\* the third argument of timeoutedPromise: close(), then the refresh of the
\* default pool of the connection when a new volume was asked for
RefreshesPool(st) ==
    /\ st.storagePool = "NewVolume"
    /\ \E pool \in storagePools :
          pool.connectionName = st.connectionName /\ pool.name = "default"

AfterTimeoutHandler(c) == [c EXCEPT !.refreshed = RefreshesPool(state)]

\* timeoutedPromise: the timer calls the third argument unless createVm has
\* settled, a success that settles the race calls it as well, and a failure
\* calls the fourth argument whether the timer has fired or not
TimeoutCallsHandler(c) == c.timer = "armed" /\ ~c.done

SuccessCallsHandler(c) == ~c.done

FailureCallsFailHandler(c) == TRUE

\* the grace period elapses before createVm has settled
GracePeriodElapses ==
    \E i \in 1..Len(creations) :
       /\ TimeoutCallsHandler(creations[i])
       /\ creations' = [creations EXCEPT
                          ![i] = AfterTimeoutHandler([@ EXCEPT !.done = TRUE,
                                                               !.timer = "fired"])]
       /\ showModal' = close(showModal)
       /\ UNCHANGED <<action, props, state, session, typingTimeout, timers, notifications,
                      now, srcEdits, burst, last, prev>>

\* createVm succeeds: before the timeout this settles the race and closes the
\* dialog, after it nothing is left to do
CreationSucceeds ==
    \E i \in 1..Len(creations) :
       /\ creations[i].status = "pending"
       /\ IF SuccessCallsHandler(creations[i])
          THEN /\ creations' = [creations EXCEPT
                                  ![i] = AfterTimeoutHandler(
                                            [@ EXCEPT !.status = "succeeded",
                                                      !.done = TRUE,
                                                      !.timer = "cleared"])]
               /\ showModal' = close(showModal)
          ELSE /\ creations' = [creations EXCEPT ![i].status = "succeeded"]
               /\ UNCHANGED showModal
       /\ UNCHANGED <<action, props, state, session, typingTimeout, timers, notifications,
                      now, srcEdits, burst, last, prev>>

NotificationWithoutDetail(i, c, message) ==
    [creation |-> i, text |-> <<"Creation of VM $0 failed", c.vmParams.vmName>>,
     detail |-> ""]

\* the fourth argument of timeoutedPromise: the notification, then close()
Notification(i, c, message) ==
    [creation |-> i, text |-> <<"Creation of VM $0 failed", c.vmParams.vmName>>,
     detail |-> message]

\* createVm fails, before or after the timeout
CreationFails ==
    \E i \in 1..Len(creations) : \E message \in FailureMessages :
       /\ creations[i].status = "pending"
       /\ creations' = [creations EXCEPT
                          ![i] = [@ EXCEPT !.status = "failed",
                                           !.error = message,
                                           !.done = TRUE,
                                           !.timer = IF @ = "armed" THEN "cleared" ELSE @]]
       /\ IF FailureCallsFailHandler(creations[i])
          THEN /\ notifications' = Append(notifications,
                                          Notification(i, creations[i], message))
               /\ showModal' = close(showModal)
          ELSE UNCHANGED <<notifications, showModal>>
       /\ UNCHANGED <<action, props, state, session, typingTimeout, timers, now, srcEdits,
                      burst, last, prev>>

----------------------------------------------------------------------------
(* Specifications *)

\* the source input and the auto-detection of the OS
NextDetect ==
    \/ WhichSucceeds
    \/ WhichFails
    \/ InstallProbeAnswers
    \/ UnattendedProbeAnswers
    \/ Open
    \/ Tick
    \/ ChangeSourceType
    \/ EditSource
    \/ TypingTimeoutFires
    \/ AutodetectResolves
    \/ AutodetectRejects

SpecDetect == Init /\ [][NextDetect]_vars

\* submitting the form and the race of the creation against the grace period
NextSubmit ==
    \/ WhichSucceeds
    \/ WhichFails
    \/ InstallProbeAnswers
    \/ UnattendedProbeAnswers
    \/ Open
    \/ Cancel
    \/ TypeName
    \/ SelectOs
    \/ CreateClicked
    \/ GracePeriodElapses
    \/ CreationSucceeds
    \/ CreationFails

SpecSubmit == Init /\ [][NextSubmit]_vars

\* the browser runs a timer that is due: the grace period does elapse
SpecSubmitFair == SpecSubmit /\ WF_vars(GracePeriodElapses)

\* the drafts validateParams is given
NextValidate ==
    \/ WhichSucceeds
    \/ WhichFails
    \/ InstallProbeAnswers
    \/ UnattendedProbeAnswers
    \/ Open
    \/ EditName
    \/ ChangeConnection
    \/ SelectOs
    \/ ToggleUnattended
    \/ EditRootPassword

SpecValidate == Init /\ [][NextValidate]_vars

\* the rules of the source and of the connection, with their cascades
NextFields ==
    \/ WhichSucceeds
    \/ WhichFails
    \/ InstallProbeAnswers
    \/ UnattendedProbeAnswers
    \/ Open
    \/ ChangeSourceType
    \/ ChangeConnection
    \/ EditSource
    \/ SelectStoragePool

SpecFields == Init /\ [][NextFields]_vars

\* the rules of the unattended installation and of the start flag
NextUnattended ==
    \/ WhichSucceeds
    \/ WhichFails
    \/ InstallProbeAnswers
    \/ UnattendedProbeAnswers
    \/ Open
    \/ ChangeSourceType
    \/ SelectOs
    \/ ToggleUnattended
    \/ ToggleStartVm

SpecUnattended == Init /\ [][NextUnattended]_vars

\* the sizes of memory and storage, their units and the hints of the OS
NextSizes ==
    \/ WhichSucceeds
    \/ WhichFails
    \/ InstallProbeAnswers
    \/ UnattendedProbeAnswers
    \/ OpenOnNode
    \/ SelectAnyOs
    \/ EditMemorySize
    \/ ChangeMemorySizeUnit
    \/ ChangeStorageSizeUnit

SpecSizes == Init /\ [][NextSizes]_vars

\* the cases that call onValueChanged again, with the detection
NextCascade ==
    \/ WhichSucceeds
    \/ WhichFails
    \/ InstallProbeAnswers
    \/ UnattendedProbeAnswers
    \/ Open
    \/ Tick
    \/ ChangeSourceType
    \/ ChangeConnection
    \/ TypeSource
    \/ TypingTimeoutFires
    \/ AutodetectResolves
    \/ ToggleUnattended

SpecCascade == Init /\ [][NextCascade]_vars

\* the snapshot of a draft whose source type changed after other edits
NextSnapshot ==
    \/ WhichSucceeds
    \/ WhichFails
    \/ InstallProbeAnswers
    \/ UnattendedProbeAnswers
    \/ Open
    \/ TypeName
    \/ ChangeSourceType
    \/ SelectOs
    \/ ToggleUnattended
    \/ EditRootPassword
    \/ CreateClicked

SpecSnapshot == Init /\ [][NextSnapshot]_vars

\* CreateVmAction from mount to unmount
NextMount ==
    \/ WhichSucceeds
    \/ WhichFails
    \/ InstallProbeAnswers
    \/ UnattendedProbeAnswers
    \/ Unmount
    \/ Open
    \/ Cancel
    \/ TypeName
    \/ SelectOs
    \/ CreateClicked
    \/ CreationSucceeds

SpecMount == Init /\ [][NextMount]_vars

Next == NextMount \/ NextSnapshot \/ NextDetect \/ NextCascade \/ NextSizes \/ EditStorageSize \/ NextSubmit \/ NextValidate \/ NextFields \/ NextUnattended

Spec == Init /\ [][Next]_vars

----------------------------------------------------------------------------
(* Properties *)

\* the requests autodetectOS has been called for
Started(t) == t.status \in {"pending", "resolved", "rejected"}

\* the createVm calls dispatched by the dialog instance number sess
CreationsOf(sess) == {i \in 1..Len(creations) : creations[i].session = sess}

\* the notifications emitted for the createVm call number i
NotificationsOf(i) == {k \in 1..Len(notifications) : notifications[k].creation = i}

\* C1: every 'source' edit cancels the auto-detection an earlier edit
\* scheduled and that has not fired yet, whatever the new value is: a timer
\* still scheduled by the mounted dialog is the one of the latest edit, and no
\* burst of edits starts more than one auto-detection request.
C1_EveryEditCancelsPending ==
    /\ \A i \in 1..Len(timers) :
          (timers[i].status = "scheduled" /\ timers[i].session = session)
             => timers[i].edit = srcEdits
    /\ burst.started <= 1

\* C2: the result of a request that is not the latest one started never
\* changes os or sourceMediaID of the draft.
C2_StaleResultIgnored ==
    [][\A i \in 1..Len(timers) :
          ( /\ Len(timers') = Len(timers)
            /\ timers[i].status = "pending"
            /\ timers'[i].status = "resolved"
            /\ \E j \in (i + 1)..Len(timers) : Started(timers[j]) )
          => /\ state'.os = state.os
             /\ state'.sourceMediaID = state.sourceMediaID]_vars

\* C3: a submit of a draft with at least one validation failure dispatches no
\* createVm and leaves validate = true and inProgress = false; createVm is
\* dispatched only from a draft whose validation report is empty.
C3_InvalidDraftNotSubmitted ==
    [][ /\ (CreateClicked /\ HasFailures(Validation(state)))
           => /\ creations' = creations
              /\ state'.validate
              /\ ~state'.inProgress
        /\ (creations' # creations /\ Len(creations') > Len(creations))
           => ~HasFailures(Validation(state)) ]_vars

C3_Witness ==
    /\ last.key = "onCreateClicked"
    /\ HasFailures(Validation(prev))
    /\ prev.inProgress
    /\ state.validate
    /\ ~state.inProgress

C5_SubmittedOncePerSession ==
    \A sess \in 1..session : Cardinality(CreationsOf(sess)) <= 1

\* C6: after a submit that passed validation the dialog of that session is
\* eventually closed, also when createVm never settles; and once the race of
\* a submit is decided (createVm settled or the grace period elapsed) the
\* dialog that submitted it is closed.
C6_SubmittedDialogCloses ==
    /\ [](\A i \in 1..Len(creations) :
             creations[i].done => ~Mounted(creations[i].session))
    /\ (showModal /\ CreationsOf(session) # {}) ~> ~showModal

C6_Witness ==
    \E i \in 1..Len(creations) :
       /\ creations[i].timer = "fired"
       /\ creations[i].status = "pending"
       /\ ~showModal

\* C7: every failed createVm, whether it failed before or after the grace
\* period elapsed, has exactly one error notification, which carries the
\* message of the failure; notifications are emitted for failures only; and
\* the dialog that submitted a failed createVm is not open.
C7_FailureNotifiedOnce ==
    /\ \A i \in 1..Len(creations) :
          creations[i].status = "failed"
             => /\ Cardinality(NotificationsOf(i)) = 1
                /\ \A k \in NotificationsOf(i) :
                      /\ notifications[k].detail = creations[i].error
                      /\ notifications[k].detail \in FailureMessages
                /\ ~Mounted(creations[i].session)
    /\ \A k \in 1..Len(notifications) :
          creations[notifications[k].creation].status = "failed"

C7_Witness ==
    \E i \in 1..Len(creations) :
       /\ creations[i].timer = "fired"
       /\ creations[i].status = "failed"
       /\ NotificationsOf(i) # {}

\* C8: when the source type changes from network boot to another type, by the
\* 'sourceType' case itself or by the cascade of the 'connectionName' case,
\* the source of the resulting state is the empty string.
C8_LeavingPxeClearsSource ==
    (last.key \in {"sourceType", "connectionName"}
       /\ prev.sourceType = PXE_SOURCE /\ state.sourceType # PXE_SOURCE)
    => state.source = <<>>

C8_Witness ==
    /\ last.key = "connectionName"
    /\ prev.sourceType = PXE_SOURCE
    /\ Truthy(prev.source)
    /\ state.sourceType = LOCAL_INSTALL_MEDIA_SOURCE
    /\ state.connectionName = LIBVIRT_SESSION_CONNECTION
    /\ state.source = <<>>

\* C9: after unattendedInstallation was enabled, startVm is true, whatever it
\* was before.
C9_UnattendedForcesStartVm ==
    (last.key = "unattendedInstallation" /\ last.value = ToString(TRUE))
    => (state.unattendedInstallation /\ state.startVm)

C9_Witness ==
    /\ last.key = "unattendedInstallation"
    /\ last.value = ToString(TRUE)
    /\ ~prev.startVm
    /\ state.startVm

\* C10: validateParams reports a name failure when the name is empty after
\* trimming and when an existing VM of the draft's connection has exactly that
\* name, and reports none otherwise: not for a VM of the other connection with
\* that name, and not for a name that differs in case.
C10_NameFailure ==
    showModal =>
    LET named == {vm \in vms : vm.name = state.vmName}
        failed == "vmName" \in DOMAIN Validation(state)
    IN /\ Trim(state.vmName) = <<>> => failed
       /\ (\E vm \in named : vm.connectionName = state.connectionName) => failed
       /\ ( /\ Trim(state.vmName) # <<>>
            /\ \A vm \in named : vm.connectionName # state.connectionName )
          => ~failed

C10_Witness ==
    /\ showModal
    /\ state.vmName = <<"b">>
    /\ state.connectionName = LIBVIRT_SYSTEM_CONNECTION
    /\ \E vm \in vms : vm.name = state.vmName
    /\ "vmName" \notin DOMAIN Validation(state)

\* C11: a draft whose memorySize is 0 has a memory failure in its validation
\* report, with no OS selected, with an OS that has a minimum memory hint and
\* with an OS that has none.
C11_ZeroMemoryFails ==
    (showModal /\ state.memorySize = Zero) => "memory" \in DOMAIN Validation(state)

C11_Witness ==
    /\ showModal
    /\ state.memorySize = Zero
    /\ state.os = "tinycore"
    /\ last.key = "memorySize"
    /\ prev.memorySize # Zero
    /\ Validation(state).memory = "Memory must not be 0"


\* C12: selecting an OS whose recommended memory, a positive number of bytes,
\* floors to 0 in the current memory unit leaves the unit MiB and a memorySize
\* that is not 0
C12_SmallRecommendationShown ==
    (/\ showModal /\ last.key = "os" /\ state.os # NoOs
     /\ HasHint(OsInfo(state.os).recommendedResources.ram)
     /\ Floor(convertToUnit(OsInfo(state.os).recommendedResources.ram, "B",
                            prev.memorySizeUnit)) = Zero)
    => (state.memorySizeUnit = "MiB" /\ state.memorySize # Zero)


\* C13: a memorySizeUnit or storageSizeUnit update stores the new unit and
\* re-expresses the size so that the quantity in bytes is the same, and a
\* change from a unit to any other unit and back gives the original size
C13_UnitChangeKeepsQuantity ==
    showModal =>
      /\ last.key = "memorySizeUnit" =>
           /\ ToString(state.memorySizeUnit) = last.value
           /\ convertToUnit(state.memorySize, state.memorySizeUnit, "B")
                = convertToUnit(prev.memorySize, prev.memorySizeUnit, "B")
           /\ state.memorySize
                = convertToUnit(prev.memorySize, prev.memorySizeUnit,
                                state.memorySizeUnit)
      /\ last.key = "storageSizeUnit" =>
           /\ ToString(state.storageSizeUnit) = last.value
           /\ convertToUnit(state.storageSize, state.storageSizeUnit, "B")
                = convertToUnit(prev.storageSize, prev.storageSizeUnit, "B")
      /\ \A u2 \in UnitNames :
           LET there == RuleMemorySizeUnit(state, state, u2)
               back == RuleMemorySizeUnit(there, there, state.memorySizeUnit)
               thereS == RuleStorageSizeUnit(state, state, u2)
               backS == RuleStorageSizeUnit(thereS, thereS, state.storageSizeUnit)
           IN /\ there.memorySizeUnit = u2
              /\ back.memorySizeUnit = state.memorySizeUnit
              /\ back.memorySize = state.memorySize
              /\ backS.storageSizeUnit = state.storageSizeUnit
              /\ backS.storageSize = state.storageSize

\* 1536 MiB has become 1.5 GiB
C13_Witness ==
    /\ showModal /\ last.key = "memorySizeUnit"
    /\ prev.memorySizeUnit = "MiB" /\ prev.memorySize = Num(1536)
    /\ state.memorySizeUnit = "GiB" /\ state.memorySize = Norm(1536, -1)


\* C14: after a vmName update the stored name holds no whitespace character,
\* neither a space nor a tab
C14_StoredNameHasNoWhitespace ==
    (showModal /\ last.key = "vmName")
    => \A i \in 1..Len(state.vmName) : state.vmName[i] \notin Whitespace


\* C15: for a source that is a non-empty string, validateParams reports a
\* source failure exactly when the type is local media or existing disk and
\* the path does not start with "/", or the type is URL and the source starts
\* with none of "http", "ftp", "nfs"; a network-boot source is never rejected;
\* an empty source fails for every source type except download-OS
C15_SourceFailureExactly ==
    (showModal /\ state.source # UndefinedStr) =>
      LET failed == "source" \in DOMAIN Validation(state)
          badPath == /\ state.sourceType \in {LOCAL_INSTALL_MEDIA_SOURCE,
                                              EXISTING_DISK_IMAGE_SOURCE}
                     /\ ~StartsWith(state.source, <<"/">>)
          badUrl == /\ state.sourceType = URL_SOURCE
                    /\ ~StartsWith(state.source, <<"h", "t", "t", "p">>)
                    /\ ~StartsWith(state.source, <<"f", "t", "p">>)
                    /\ ~StartsWith(state.source, <<"n", "f", "s">>)
      IN IF state.source # <<>>
         THEN /\ failed <=> (badPath \/ badUrl)
              /\ state.sourceType = PXE_SOURCE => ~failed
         ELSE failed <=> state.sourceType # DOWNLOAD_AN_OS


\* C16: after selecting an OS without a minimum memory (or storage) hint the
\* draft's minimumMemory (or minimumStorage) is 0, also when an OS selected
\* before had set a minimum that is not 0
C16_AbsentHintGivesZeroMinimum ==
    (showModal /\ last.key = "os" /\ state.os # NoOs) =>
      /\ ~HasHint(OsInfo(state.os).minimumResources.ram)
           => state.minimumMemory = Zero
      /\ ~HasHint(OsInfo(state.os).minimumResources.storage)
           => state.minimumStorage = Zero


\* C17: after a connectionName update the new connection name is stored; when
\* the source type was network boot and the new connection is the session
\* one, the source type is local media and the source is empty; when a
\* specific storage pool was selected, storagePool is "NewVolume"
C17_ConnectionChange ==
    (showModal /\ last.key = "connectionName") =>
      /\ ToString(state.connectionName) = last.value
      /\ (prev.sourceType = PXE_SOURCE
            /\ state.connectionName = LIBVIRT_SESSION_CONNECTION)
           => (state.sourceType = LOCAL_INSTALL_MEDIA_SOURCE /\ state.source = <<>>)
      /\ prev.storagePool \notin {"NewVolume", "NoStorage"}
           => state.storagePool = "NewVolume"

C17_Witness ==
    /\ showModal /\ last.key = "connectionName"
    /\ prev.connectionName = LIBVIRT_SYSTEM_CONNECTION
    /\ prev.sourceType = PXE_SOURCE
    /\ prev.storagePool \notin {"NewVolume", "NoStorage"}
    /\ state.connectionName = LIBVIRT_SESSION_CONNECTION
    /\ state.sourceType = LOCAL_INSTALL_MEDIA_SOURCE
    /\ state.storagePool = "NewVolume"


\* C18: in every draft reached by edits of the memory size, changes of the
\* memory unit and selections of an OS, memorySize does not exceed the
\* maximum memory of the node, floored in the draft's memory unit
C18_MemoryWithinNodeMaximum ==
    showModal =>
      ~Less(Floor(convertToUnit(Num(props.nodeMaxMemory), "KiB",
                                state.memorySizeUnit)),
            state.memorySize)


C20_NoStateSetAfterUnmount ==
    action.isClosed => action.late = 0


\* C21: whenever an auto-detection request of the dialog has settled (with a
\* catalog match, with no matching entry, or by a failure) and no request is
\* outstanding, autodetectOSInProgress is false
C21_IndicatorClearedWhenSettled ==
    (/\ Shown
     /\ \E i \in 1..Len(timers) :
           timers[i].session = session /\ timers[i].status \in {"resolved", "rejected"}
     /\ \A i \in 1..Len(timers) : timers[i].status # "pending")
    => ~state.autodetectOSInProgress


\* C22: in every draft, when storagePool is "NewVolume" or "NoStorage" the
\* storageVolume is empty or undefined, also after a connectionName change
\* that has reset the pool
C22_VolumeOnlyWithPool ==
    (Shown /\ state.storagePool \in {"NewVolume", "NoStorage"})
    => state.storageVolume \in {"", "undefined"}


\* C23: in every draft whose source type is download-OS, validateParams
\* reports no source failure, whatever source string the edits under another
\* source type have left in the draft
C23_DownloadOsNeedsNoSource ==
    (Shown /\ state.sourceType = DOWNLOAD_AN_OS)
    => "source" \notin DOMAIN Validation(state)


\* C24: an update that leaves unattendedInstallation off, by the switch itself
\* or by the selection of an OS that cannot be installed unattended, leaves
\* startVm as it was
C24_UnattendedOffKeepsStartVm ==
    (/\ Shown
     /\ last.key \in {"os", "unattendedInstallation"}
     /\ ~state.unattendedInstallation)
    => state.startVm = prev.startVm


\* C25: a snapshot handed to createVm has unattended = true only with a source
\* type that allows an unattended installation: download-OS, URL or local
\* media, never network boot or existing disk
C25_UnattendedOnlyWhereAllowed ==
    \A i \in 1..Len(creations) :
       creations[i].vmParams.unattended
         => creations[i].vmParams.sourceType
              \in {DOWNLOAD_AN_OS, URL_SOURCE, LOCAL_INSTALL_MEDIA_SOURCE}

====
